---- MODULE Spec2Model ----
(***************************************************************************)
(* A model of the BIP32 key-tree engine of bip32.py / bip32_helper.py:     *)
(* the Xkey node, seed/child/path/public derivation and the base58check    *)
(* wire codec.                                                             *)
(*                                                                         *)
(* Byte strings are sequences of bytes.  The widths of the program are     *)
(* scaled down so that TLC can enumerate them: a byte has ByteBits bits    *)
(* (8 in the program), the 4-byte fields (version, fingerprint, index,     *)
(* checksum) have WordLen bytes, and the 32-byte fields (private key,      *)
(* chain code, x coordinate, half an HMAC) have KeyLen bytes.  The depth   *)
(* stays one byte.  Every width-dependent behaviour of the program         *)
(* (to_bytes overflow, bytes([depth]) range, the hardened bit, the 0x00    *)
(* private-key marker) is kept at the scaled width.                        *)
(*                                                                         *)
(* The hash functions and the elliptic-curve group are libraries the       *)
(* program imports; they are modelled by a small deterministic mixing      *)
(* function and by the cyclic group of order N.                            *)
(***************************************************************************)
EXTENDS Integers, Sequences, FiniteSets, TLC

\* ------------------------------------------------------------------ bounds
ByteBits == 2
WordLen == 2
KeyLen == 2
MaxSteps == 3

Byte == 2 ^ ByteBits
Bytes == 0 .. (Byte - 1)

\* parent_pubkey=None, and the marker of a library call that raised
None == << -1 >>
Raised == << -2 >>

\* ------------------------------------------------------- bytes <-> integers
RECURSIVE from_bytes_acc(_, _)
from_bytes_acc(acc, data) ==
    IF data = << >> THEN acc
    ELSE from_bytes_acc(acc * Byte + Head(data), Tail(data))

\* int.from_bytes(data, "big")
from_bytes(data) == from_bytes_acc(0, data)

RECURSIVE to_bytes_acc(_, _, _)
to_bytes_acc(num, len, acc) ==
    IF len = 0 THEN acc
    ELSE to_bytes_acc(num \div Byte, len - 1, << num % Byte >> \o acc)

\* num.to_bytes(len, "big"): Raised stands for OverflowError
to_bytes(num, len) ==
    IF num < 0 \/ num >= Byte ^ len THEN Raised
    ELSE to_bytes_acc(num, len, << >>)

Zeros(len) == [i \in 1 .. len |-> 0]

Take(data, len) == SubSeq(data, 1, IF len < Len(data) THEN len ELSE Len(data))
Drop(data, len) == SubSeq(data, len + 1, Len(data))

\* ------------------------------------------------------------------ hashes
RECURSIVE Absorb(_, _)
Absorb(h, data) ==
    IF data = << >> THEN h
    ELSE Absorb((h * 31 + Head(data) + 1) % 251, Tail(data))

Squeeze(h, len) == [i \in 1 .. len |-> (Absorb(h, << i, h % 7 >>) \div 3) % Byte]

\* two rounds of sha256
hash256(data) == Squeeze(Absorb(Absorb(3, data), data), KeyLen)

\* sha256 followed by ripemd160; hashing None raises TypeError
hash160(data) ==
    IF data = None THEN Raised
    ELSE Squeeze(Absorb(Absorb(5, data), << Len(data) % Byte >>), KeyLen)

\* hmac.new(key, msg, sha512).digest(): two halves of KeyLen bytes
hmac_sha512(key, msg) == Squeeze(Absorb(Absorb(Absorb(17, key), << 0 >>), msg), 2 * KeyLen)

\* "Bitcoin seed".encode("utf8")
BitcoinSeed == << 1, 2, 3 >>

\* --------------------------------------------------------- the curve group
\* Points are the residues modulo N; 0 is the point at infinity, k*G is
\* (k * G) mod N.  A point P and its inverse N - P share the x coordinate
\* and differ in the parity prefix of the SEC encoding.
N == 13
G == 2

\* coefficient * G (S256Point.__rmul__ reduces the coefficient modulo N)
ScalarMulG(coefficient) == ((coefficient % N) * G) % N

\* S256Point.__add__
PointAdd(p, q) == (p + q) % N

\* S256Point.sec(compressed=True); the point at infinity has no encoding
Sec(p) ==
    IF p = 0 THEN Raised
    ELSE IF p <= N \div 2 THEN << 2 >> \o to_bytes(p, KeyLen)
    ELSE << 3 >> \o to_bytes(N - p, KeyLen)

\* S256Point.parse(sec_bin): -1 stands for a raised error
PointParse(sec_bin) ==
    IF Len(sec_bin) # KeyLen + 1 \/ sec_bin[1] \notin {2, 3} THEN -1
    ELSE LET x == from_bytes(Tail(sec_bin)) IN
         IF x < 1 \/ x > N \div 2 THEN -1
         ELSE IF sec_bin[1] = 2 THEN x ELSE N - x

\* bip32_helper.get_pubkey_sec
get_pubkey_sec(private_key_bytes) == Sec(ScalarMulG(from_bytes(private_key_bytes)))

\* ------------------------------------------------------------------ base58
\* A base58 string is the sequence of the positions of its characters in
\* BASE58_ALPHABET ('1' is position 0).  Python integers are unbounded, so
\* the numbers are kept as big-endian byte strings and divided/multiplied
\* digit by digit.
Base58 == 58

\* divmod(num, 58) on a big-endian byte string: << quotient, remainder >>
RECURSIVE divmod58(_, _, _)
divmod58(num, carry, quot) ==
    IF num = << >> THEN << quot, carry >>
    ELSE LET cur == carry * Byte + Head(num) IN
         divmod58(Tail(num), cur % Base58, Append(quot, cur \div Base58))

IsZero(num) == \A i \in 1 .. Len(num) : num[i] = 0

RECURSIVE LeadingZeros(_)
LeadingZeros(data) ==
    IF data = << >> \/ Head(data) # 0 THEN 0 ELSE 1 + LeadingZeros(Tail(data))

RECURSIVE encode_digits(_, _)
encode_digits(num, result) ==
    IF IsZero(num) THEN result
    ELSE LET qr == divmod58(num, 0, << >>) IN
         encode_digits(qr[1], << qr[2] >> \o result)

\* bip32_helper.encode_base58
encode_base58(data) == Zeros(LeadingZeros(data)) \o encode_digits(data, << >>)

\* bip32_helper.encode_base58_checksum
encode_base58_checksum(data) == encode_base58(data \o Take(hash256(data), WordLen))

\* num * 58 + digit on a byte string of fixed length: << bytes, carry out >>
RECURSIVE muladd58(_, _, _)
muladd58(num, carry, acc) ==
    IF num = << >> THEN << acc, carry >>
    ELSE LET cur == num[Len(num)] * Base58 + carry IN
         muladd58(SubSeq(num, 1, Len(num) - 1), cur \div Byte, << cur % Byte >> \o acc)

RECURSIVE decode_digits(_, _)
decode_digits(num, str) ==
    IF str = << >> THEN num
    ELSE LET r == muladd58(num, Head(str), << >>) IN
         IF r[2] # 0 THEN Raised ELSE decode_digits(r[1], Tail(str))

\* the 82 of num.to_bytes(82): version, depth, fingerprint, index, chain
\* code, key field, checksum
DecodedLen == WordLen + 1 + WordLen + WordLen + KeyLen + (KeyLen + 1) + WordLen

\* bip32_helper.decode_base58; Raised stands for to_bytes' OverflowError
decode_base58(base58_string) == decode_digits(Zeros(DecodedLen), base58_string)

\* -------------------------------------------------------------------- Xkey
\* bytes.fromhex("0488ade4") and bytes.fromhex("0488b21e")
VersionXprv == << 1 >> \o Zeros(WordLen - 2) \o << 2 >>
VersionXpub == << 1 >> \o Zeros(WordLen - 2) \o << 3 >>

\* 2**31, the first hardened index, and 2**32, the first index that does
\* not fit the index field
Hardened == (Byte ^ WordLen) \div 2
IndexLimit == Byte ^ WordLen

NoXkey == [key |-> << >>, chaincode |-> << >>, root |-> FALSE, private_key |-> FALSE,
           depth |-> -1, index |-> -1, parent_pubkey |-> None]

Ok(x) == [err |-> "none", val |-> x]
Err(kind) == [err |-> kind, val |-> NoXkey]
StrErr(kind) == [err |-> kind, val |-> << >>]

\* Xkey.__init__
Xkey(key, chaincode, private_key, root, depth, index, parent_pubkey) ==
    IF ~root /\ depth = 0 THEN Err("AssertionError")
    ELSE IF ~root /\ parent_pubkey = None THEN Err("AssertionError")
    ELSE Ok([key |-> key, chaincode |-> chaincode, root |-> root,
             private_key |-> private_key, depth |-> depth, index |-> index,
             parent_pubkey |-> parent_pubkey])

\* Xkey.parse_from_seed
parse_from_seed(seed) ==
    LET full_node == hmac_sha512(BitcoinSeed, seed)
        left_node == Take(full_node, KeyLen)
        right_node == Drop(full_node, KeyLen)
    IN Xkey(left_node, right_node, TRUE, TRUE, 0, 0, None)

\* Xkey.parse_from_bip32
parse_from_bip32(bip32key, parent_pubkey) ==
    LET decoded == decode_base58(bip32key) IN
    IF decoded = Raised THEN Err("OverflowError")
    ELSE
    LET payload == SubSeq(decoded, 1, DecodedLen - WordLen)
        checksum == Drop(decoded, DecodedLen - WordLen)
        version == Take(payload, WordLen)
        depth == payload[WordLen + 1]
        fingerprint == SubSeq(payload, WordLen + 2, 2 * WordLen + 1)
        index == from_bytes(SubSeq(payload, 2 * WordLen + 2, 3 * WordLen + 1))
        chaincode == SubSeq(payload, 3 * WordLen + 2, 3 * WordLen + 1 + KeyLen)
        keyfield == Drop(payload, 3 * WordLen + 1 + KeyLen)
        root == depth = 0 /\ fingerprint = Zeros(WordLen) /\ index = 0
        key == IF keyfield[1] = 0 THEN Tail(keyfield) ELSE keyfield
    IN
    IF checksum # Take(hash256(payload), WordLen) THEN Err("ChecksumMismatch")
    ELSE IF version \notin {VersionXprv, VersionXpub} THEN Err("UnsupportedFormat")
    ELSE IF ~root /\ hash160(parent_pubkey) = Raised THEN Err("TypeError")
    ELSE IF ~root /\ Take(hash160(parent_pubkey), WordLen) # fingerprint
         THEN Err("FingerprintMismatch")
    ELSE Xkey(key, chaincode, version = VersionXprv, root, depth, index, parent_pubkey)

\* derive_child_seed: the public key of the parent
child_pubkey(self) == IF self.private_key THEN get_pubkey_sec(self.key) ELSE self.key

\* the hardened index is not refused (a silent downgrade)
hardened_never_refused(self, index_num) == FALSE

\* derive_child_seed: the rejection of a hardened index on a public parent
hardened_on_public(self, index_num) == ~self.private_key /\ index_num >= Hardened

\* a private parent always hashes its private key, hardened or not
child_data_from_private_key(self, index_num, pubkey) ==
    IF self.private_key
    THEN << 0 >> \o self.key \o to_bytes(index_num, WordLen)
    ELSE pubkey \o to_bytes(index_num, WordLen)

\* derive_child_seed: the HMAC message
child_data(self, index_num, pubkey) ==
    IF self.private_key /\ index_num >= Hardened
    THEN << 0 >> \o self.key \o to_bytes(index_num, WordLen)
    ELSE pubkey \o to_bytes(index_num, WordLen)

\* derive_child_seed: the key of the child from the left half of the HMAC
child_key(self, left_node_num) ==
    IF self.private_key
    THEN to_bytes((from_bytes(self.key) + left_node_num) % N, KeyLen)
    ELSE LET key_point == PointParse(self.key) IN
         IF key_point = -1 THEN Raised
         ELSE Sec(PointAdd(key_point, ScalarMulG(left_node_num)))

\* the depth of the parent is copied
child_depth_of_parent(self) == IF self.root THEN 1 ELSE self.depth

\* derive_child_seed: the depth of the child
child_depth(self) == IF self.root THEN 1 ELSE self.depth + 1

\* Xkey.derive_child_seed
derive_child_seed(self, index_num) ==
    LET pubkey == child_pubkey(self)
        full_node == hmac_sha512(self.chaincode, child_data(self, index_num, pubkey))
        left_node == Take(full_node, KeyLen)
        right_node == Drop(full_node, KeyLen)
        key == child_key(self, from_bytes(left_node))
    IN
    IF pubkey = Raised THEN Err("EccError")
    ELSE IF hardened_on_public(self, index_num) THEN Err("HardenedIndex")
    ELSE IF to_bytes(index_num, WordLen) = Raised THEN Err("OverflowError")
    ELSE IF key = Raised THEN Err("EccError")
    ELSE Xkey(key, right_node, self.private_key, FALSE, child_depth(self), index_num,
              pubkey)

\* the hardened flag of a step is dropped
path_index_unhardened(item) == item[1]

\* derive_path: the index of a step
path_index(item) == IF item[2] THEN item[1] + Hardened ELSE item[1]

\* Xkey.derive_path: the loop over the path, stopped by the first raise
RECURSIVE derive_path_loop(_, _)
derive_path_loop(seed, path) ==
    IF path = << >> THEN Ok(seed)
    ELSE LET next == derive_child_seed(seed, path_index(Head(path))) IN
         IF next.err # "none" THEN next
         ELSE derive_path_loop(next.val, Tail(path))

derive_path(self, path) == derive_path_loop(self, path)

\* Xkey.derive_pubkey
derive_pubkey(self) ==
    IF ~self.private_key THEN Err("AssertionError")
    ELSE LET pub == get_pubkey_sec(self.key) IN
         IF pub = Raised THEN Err("EccError")
         ELSE Xkey(pub, self.chaincode, FALSE, self.root, self.depth, self.index,
                   self.parent_pubkey)

\* Xkey.serialize
serialize(self) ==
    LET version == IF self.private_key THEN VersionXprv ELSE VersionXpub
        fingerprint == hash160(self.parent_pubkey)
        index_bytes == to_bytes(self.index, WordLen)
        position == IF self.root THEN Zeros(1 + WordLen + WordLen)
                    ELSE << self.depth >> \o Take(fingerprint, WordLen) \o index_bytes
        keyfield == IF self.private_key THEN << 0 >> \o self.key ELSE self.key
    IN
    IF ~self.root /\ self.depth \notin Bytes THEN StrErr("ValueError")
    ELSE IF ~self.root /\ fingerprint = Raised THEN StrErr("TypeError")
    ELSE IF ~self.root /\ index_bytes = Raised THEN StrErr("OverflowError")
    ELSE [err |-> "none",
          val |-> encode_base58_checksum(version \o position \o self.chaincode \o keyfield)]

\* ------------------------------------------------------------- the callers
\* node    the Xkey the caller holds (NoXkey before the first one is built)
\* prev    the Xkey the last operation was called on
\* op      the last operation, arg its arguments, err the error it raised
\* wire    the string returned by the last successful serialize
\* origin  how the held node came to be: "seed" while it is the result of
\*         parse_from_seed followed by derivations only, "parse" once a
\*         parse_from_bip32 is involved, "init" for a direct Xkey(...) call
\* steps   the number of operations called so far
VARIABLES node, prev, op, arg, err, wire, origin, steps

vars == << node, prev, op, arg, err, wire, origin, steps >>

NoArg == [seed |-> << >>, str |-> << >>, parent |-> None, index |-> -1,
          path |-> << >>, ctor |-> NoXkey]

\* the inputs the callers draw from
Seeds == {<< 0 >>, << 0, 1 >>, << 1, 3 >>}
ChildIndices == {0, 1, Hardened, IndexLimit - 1, IndexLimit}
\* a path as long as the depth byte is wide
LongPath == [i \in 1 .. Byte |-> << 0, FALSE >>]
Paths ==
    {<< >>, << <<0, FALSE>> >>, << <<0, TRUE>> >>, << <<0, TRUE>>, <<1, FALSE>> >>,
     << <<1, FALSE>>, <<0, TRUE>> >>, << <<Hardened, TRUE>> >>, LongPath}

SampleKey == to_bytes(5, KeyLen)
SampleChaincode == [i \in 1 .. KeyLen |-> 1]
ParentInputs == {None, Sec(1), Sec(2)}
WireVersions == {VersionXprv, VersionXpub, Zeros(WordLen)}
WireDepths == {0, 1, Byte - 1}
WireFingerprints == {Zeros(WordLen), Take(hash160(Sec(1)), WordLen)}
WireIndices == {0, 1}
WireKeyFields == {<< 0 >> \o SampleKey, Sec(3)}
WirePayloads ==
    {v \o << d >> \o f \o to_bytes(i, WordLen) \o SampleChaincode \o k :
        v \in WireVersions, d \in WireDepths, f \in WireFingerprints,
        i \in WireIndices, k \in WireKeyFields}
GoodChecksum(payload) == Take(hash256(payload), WordLen)
BadChecksum(payload) ==
    LET c == GoodChecksum(payload) IN [c EXCEPT ![WordLen] = (c[WordLen] + 1) % Byte]
WireInputs ==
    {encode_base58(p \o GoodChecksum(p)) : p \in WirePayloads}
    \cup {encode_base58(p \o BadChecksum(p)) : p \in WirePayloads}

CtorInputs ==
    [key : {SampleKey}, chaincode : {SampleChaincode}, root : BOOLEAN,
     private_key : BOOLEAN, depth : {0, 1}, index : {0},
     parent_pubkey : {None, Sec(1)}]

Init ==
    /\ node = NoXkey
    /\ prev = NoXkey
    /\ op = "start"
    /\ arg = NoArg
    /\ err = "none"
    /\ wire = << >>
    /\ origin = "none"
    /\ steps = 0

\* the caller receives r from a constructing call: it keeps the new node,
\* or its old one when the call raised
Receive(r, from) ==
    /\ err' = r.err
    /\ node' = IF r.err = "none" THEN r.val ELSE node
    /\ origin' = IF r.err = "none" THEN from ELSE origin
    /\ steps' = steps + 1

\* Xkey(...) called directly
Construct ==
    /\ op = "start"
    /\ \E c \in CtorInputs :
        /\ Receive(Xkey(c.key, c.chaincode, c.private_key, c.root, c.depth, c.index,
                        c.parent_pubkey), "init")
        /\ arg' = [NoArg EXCEPT !.ctor = c]
    /\ op' = "init"
    /\ prev' = NoXkey
    /\ UNCHANGED wire

\* Xkey.parse_from_seed(seed)
ParseFromSeed ==
    /\ op = "start"
    /\ \E seed \in Seeds :
        /\ Receive(parse_from_seed(seed), "seed")
        /\ arg' = [NoArg EXCEPT !.seed = seed]
    /\ op' = "parse_from_seed"
    /\ prev' = NoXkey
    /\ UNCHANGED wire

\* Xkey.parse_from_bip32(bip32key, parent_pubkey) on a string from outside
ParseFromBip32 ==
    /\ op = "start"
    /\ \E bip32key \in WireInputs, parent_pubkey \in ParentInputs :
        /\ Receive(parse_from_bip32(bip32key, parent_pubkey), "parse")
        /\ arg' = [NoArg EXCEPT !.str = bip32key, !.parent = parent_pubkey]
    /\ op' = "parse_from_bip32"
    /\ prev' = NoXkey
    /\ UNCHANGED wire

\* node.derive_child_seed(index_num)
DeriveChildSeed ==
    /\ node # NoXkey
    /\ steps < MaxSteps
    /\ \E index_num \in ChildIndices :
        /\ Receive(derive_child_seed(node, index_num), origin)
        /\ arg' = [NoArg EXCEPT !.index = index_num]
    /\ op' = "derive_child_seed"
    /\ prev' = node
    /\ UNCHANGED wire

\* node.derive_path(path)
DerivePath ==
    /\ node # NoXkey
    /\ steps < MaxSteps
    /\ \E path \in Paths :
        /\ Receive(derive_path(node, path), origin)
        /\ arg' = [NoArg EXCEPT !.path = path]
    /\ op' = "derive_path"
    /\ prev' = node
    /\ UNCHANGED wire

\* node.derive_pubkey()
DerivePubkey ==
    /\ node # NoXkey
    /\ steps < MaxSteps
    /\ Receive(derive_pubkey(node), origin)
    /\ arg' = NoArg
    /\ op' = "derive_pubkey"
    /\ prev' = node
    /\ UNCHANGED wire

\* node.serialize()
Serialize ==
    /\ node # NoXkey
    /\ steps < MaxSteps
    /\ LET r == serialize(node) IN
        /\ err' = r.err
        /\ wire' = IF r.err = "none" THEN r.val ELSE wire
    /\ arg' = NoArg
    /\ op' = "serialize"
    /\ prev' = node
    /\ steps' = steps + 1
    /\ UNCHANGED << node, origin >>

\* Xkey.parse_from_bip32(node.serialize(), parent_pubkey): the string just
\* serialized is parsed back
ParseSerialized ==
    /\ op = "serialize"
    /\ err = "none"
    /\ steps < MaxSteps
    /\ \E parent_pubkey \in {node.parent_pubkey} \cup ParentInputs :
        /\ Receive(parse_from_bip32(wire, parent_pubkey), "parse")
        /\ arg' = [NoArg EXCEPT !.str = wire, !.parent = parent_pubkey]
    /\ op' = "parse_serialized"
    /\ prev' = node
    /\ UNCHANGED wire

Next ==
    \/ Construct
    \/ ParseFromSeed
    \/ ParseFromBip32
    \/ DeriveChildSeed
    \/ DerivePath
    \/ DerivePubkey
    \/ Serialize
    \/ ParseSerialized

Spec == Init /\ [][Next]_vars

\* ------------------------------------------------------------ the claims
Held == node # NoXkey
NonHardenedSample == {0, 1, Hardened - 1}
HardenedSample == {Hardened, Hardened + 1, IndexLimit - 1}

\* both sides of the public projection of a child
ChildThenPublic(p, i) ==
    LET c == derive_child_seed(p, i) IN IF c.err = "none" THEN derive_pubkey(c.val) ELSE c
PublicThenChild(p, i) ==
    LET q == derive_pubkey(p) IN IF q.err = "none" THEN derive_child_seed(q.val, i) ELSE q

\* C2: for every private node held and every non-hardened index, the public
\* projection of the child and the child of the public projection are the
\* same node in every field (and neither exists without the other).
C2_PublicProjectionCommutes ==
    (Held /\ node.private_key) =>
        \A i \in NonHardenedSample :
            (ChildThenPublic(node, i).err = "none" \/ PublicThenChild(node, i).err = "none")
                => ChildThenPublic(node, i) = PublicThenChild(node, i)

\* a derived private node whose child 1 has a public projection
C2_Witness ==
    /\ op \in {"derive_child_seed", "derive_path"}
    /\ err = "none"
    /\ node.private_key
    /\ ~node.root
    /\ ChildThenPublic(node, 1).err = "none"
    /\ ChildThenPublic(node, 1).val.depth = node.depth + 1

HasHardened(path) == \E k \in 1 .. Len(path) : path[k][2]
PathItems == {0, 1, Hardened} \X BOOLEAN
SecondItems == {<< 1, FALSE >>, << 0, TRUE >>}
Paths2 == {<< a, b >> : a \in PathItems, b \in SecondItems}
            \cup {<< b, a >> : a \in PathItems, b \in SecondItems}

\* C3: a hardened index on a public node is always refused with the
\* hardened-index error and the caller gets no node; the same index (of four
\* bytes) on the private node it was projected from gives a child; a path
\* with a hardened step fails as a whole on a public node.
C3_HardenedIsolation ==
    /\ (op = "derive_child_seed" /\ ~prev.private_key /\ arg.index >= Hardened)
        => (err = "HardenedIndex" /\ node = prev)
    /\ (op = "derive_path" /\ ~prev.private_key /\ HasHardened(arg.path))
        => (err # "none" /\ node = prev)
    /\ (Held /\ ~node.private_key) =>
        /\ \A i \in HardenedSample \cup {IndexLimit} :
            derive_child_seed(node, i) = Err("HardenedIndex")
        /\ \A path \in Paths2 : HasHardened(path) => derive_path(node, path).err # "none"
    /\ (Held /\ node.private_key /\ derive_pubkey(node).err = "none") =>
        \A i \in HardenedSample :
            /\ derive_child_seed(derive_pubkey(node).val, i) = Err("HardenedIndex")
            /\ derive_child_seed(node, i).err = "none"

\* a hardened child was refused on a public node whose private parent has it
C3_Witness ==
    /\ op = "derive_child_seed"
    /\ ~prev.private_key
    /\ arg.index = Hardened
    /\ err = "HardenedIndex"
    /\ origin = "seed"

\* the encoding of a path step, and derive_child_seed applied to a result
Encode(step) == step[1] + (IF step[2] THEN Hardened ELSE 0)
ThenChild(r, index) == IF r.err = "none" THEN derive_child_seed(r.val, index) ELSE r

\* the fold of derive_child_seed over a path, taken from the last step
RECURSIVE FoldChild(_, _)
FoldChild(n, path) ==
    IF path = << >> THEN Ok(n)
    ELSE ThenChild(FoldChild(n, SubSeq(path, 1, Len(path) - 1)), Encode(path[Len(path)]))

\* C5: derive_path is the left-to-right fold of derive_child_seed over the
\* encoded steps: two steps are two nested derivations, the empty path gives
\* the node itself, and a failing step fails the whole path with nothing
\* returned.
C5_PathFolding ==
    /\ Held =>
        /\ \A s1 \in PathItems, s2 \in SecondItems :
            derive_path(node, << s1, s2 >>)
                = ThenChild(derive_child_seed(node, Encode(s1)), Encode(s2))
        /\ derive_path(node, << >>) = Ok(node)
        /\ \A path \in Paths : derive_path(node, path) = FoldChild(node, path)
    /\ op = "derive_path" =>
        /\ [err |-> err, val |-> IF err = "none" THEN node ELSE NoXkey]
            = FoldChild(prev, arg.path)
        /\ err # "none" => node = prev
        /\ arg.path = << >> => (err = "none" /\ node = prev)

\* a two-step path with a hardened step was derived
C5_Witness ==
    /\ op = "derive_path"
    /\ err = "none"
    /\ Len(arg.path) = 2
    /\ HasHardened(arg.path)
    /\ node.depth = prev.depth + 2

\* C6: a child is never root, keeps the variant of its parent, is one level
\* deeper (level 1 under a root), carries the raw index it was derived with
\* and the SEC public key of its parent; k steps from a root give depth k.
C6_DepthIndexBookkeeping ==
    /\ (op = "derive_child_seed" /\ err = "none") =>
        /\ ~node.root
        /\ node.private_key = prev.private_key
        /\ node.depth = (IF prev.root THEN 1 ELSE prev.depth + 1)
        /\ node.index = arg.index
        /\ node.parent_pubkey
            = (IF prev.private_key THEN get_pubkey_sec(prev.key) ELSE prev.key)
    /\ (op = "derive_path" /\ err = "none" /\ arg.path # << >>) =>
        /\ ~node.root
        /\ node.private_key = prev.private_key
        /\ node.index = Encode(arg.path[Len(arg.path)])
        /\ node.depth = (IF prev.root THEN 0 ELSE prev.depth) + Len(arg.path)

\* a hardened child of a non-root private node
C6_Witness ==
    /\ op = "derive_child_seed"
    /\ err = "none"
    /\ ~prev.root
    /\ prev.private_key
    /\ arg.index = Hardened
    /\ node.depth = 2

FromApi == origin \in {"seed", "parse"}

\* C1: every node derived from a seed serializes, and parsing the string
\* with the node's parent public key gives the node back in every field.
C1_RoundTrip ==
    (Held /\ origin = "seed") =>
        LET s == serialize(node) IN
        /\ s.err = "none"
        /\ parse_from_bip32(s.val, node.parent_pubkey) = Ok(node)

\* C10: every node derived from a seed has a depth of one byte and an index
\* of four bytes and serializes; a derivation past either width yields no
\* node.
C10_WireWidth ==
    /\ (Held /\ origin = "seed") =>
        /\ node.depth \in 0 .. (Byte - 1)
        /\ node.index \in 0 .. (IndexLimit - 1)
        /\ serialize(node).err = "none"
    /\ (op = "derive_child_seed" /\ origin = "seed"
        /\ (prev.depth = Byte - 1 \/ arg.index >= IndexLimit))
        => (err # "none" /\ node = prev)

\* C7: every node returned by parse_from_seed, parse_from_bip32 or a
\* derivation is root exactly when its depth and index are 0 and it has no
\* parent public key; a parsed root has none whatever the caller passed.
C7_RootInvariant ==
    (Held /\ FromApi) =>
        (node.root <=> (node.depth = 0 /\ node.index = 0 /\ node.parent_pubkey = None))

\* C8: Xkey(...) raises, and the caller gets no node, whenever the node is
\* not root and has no parent public key, or is root with a depth other
\* than 0.
C8_ConstructionCheck ==
    op = "init" =>
        LET c == arg.ctor IN
        ((~c.root /\ c.parent_pubkey = None) \/ (c.root /\ c.depth # 0))
            => (err = "AssertionError" /\ node = NoXkey)

\* C9: every node returned by an operation has a chain code of KeyLen bytes
\* and a key of KeyLen bytes when private, KeyLen + 1 bytes when public.
C9_KeyLength ==
    (Held /\ FromApi) =>
        /\ Len(node.chaincode) = KeyLen
        /\ Len(node.key) = (IF node.private_key THEN KeyLen ELSE KeyLen + 1)

\* the fields of a string handed to parse_from_bip32
WirePayloadOf(str) == SubSeq(decode_base58(str), 1, DecodedLen - WordLen)
WireChecksumOk(str) ==
    Drop(decode_base58(str), DecodedLen - WordLen) = Take(hash256(WirePayloadOf(str)), WordLen)
WireVersionOk(str) == Take(WirePayloadOf(str), WordLen) \in {VersionXprv, VersionXpub}
WireFingerprintOf(str) == SubSeq(WirePayloadOf(str), WordLen + 2, 2 * WordLen + 1)
WireRootShaped(str) ==
    SubSeq(WirePayloadOf(str), WordLen + 1, 3 * WordLen + 1) = Zeros(1 + 2 * WordLen)
ParentMatches(str, parent) ==
    parent # None /\ Take(hash160(parent), WordLen) = WireFingerprintOf(str)

\* C4: parse_from_bip32 reports the first failing check in the order
\* checksum, version, fingerprint (a parent key that was not passed counts
\* as a fingerprint mismatch), and then returns no node.
C4_ParseOrder ==
    (op \in {"parse_from_bip32", "parse_serialized"} /\ decode_base58(arg.str) # Raised) =>
        /\ ~WireChecksumOk(arg.str) => err = "ChecksumMismatch"
        /\ (WireChecksumOk(arg.str) /\ ~WireVersionOk(arg.str)) => err = "UnsupportedFormat"
        /\ (WireChecksumOk(arg.str) /\ WireVersionOk(arg.str) /\ ~WireRootShaped(arg.str)
            /\ ~ParentMatches(arg.str, arg.parent)) => err = "FingerprintMismatch"
        /\ err \in {"ChecksumMismatch", "UnsupportedFormat", "FingerprintMismatch"}
            => node = prev

====
